---- MODULE Spec2Model ----
(***************************************************************************)
(* A model of py3dep's command-line interface (py3dep/cli.py) and of its   *)
(* utilities (py3dep/utils.py).                                            *)
(*                                                                         *)
(* The module holds five state machines over disjoint groups of variables: *)
(*   SpecCli     the `coords` and `geometry` commands,                     *)
(*   SpecRest    RESTful.bygeom and RESTful.bysql,                         *)
(*   SpecDeg     deg2mpm,                                                  *)
(*   SpecRename  rename_layers,                                            *)
(*   SpecFill    fill_depressions.                                         *)
(* Each specification leaves the variables of the others at their idle     *)
(* values.                                                                 *)
(***************************************************************************)
EXTENDS Integers, Sequences, FiniteSets, TLC

VARIABLES
    \* ---- cli.py ----
    cmd,        \* the command that runs: "coords" or "geometry"
    args,       \* its command-line arguments
    file,       \* the table stored in the input file FPATH (with its CRS)
    pc,         \* the position of the command in its body
    df,         \* the local data frame (elev / target_df)
    idx,        \* geometry: index of the next element of args_list
    dirs,       \* the directories that exist
    writes,     \* the files written so far, in order: <<path, content>>
    calls,      \* the calls made to py3dep.elevation_bycoords / py3dep.get_map
    rets,       \* what those calls returned, in order
    echo,       \* what click.echo printed
    err,        \* the exception the command ended with, or NoError
    \* ---- utils.py: RESTful ----
    rcall,      \* the method called and its arguments, and the client's CRS
    rpc,        \* the position of the method in its body
    rlog,       \* the calls made to the client and to pygeoutils, in order
    rrets,      \* what those calls returned, in order
    rerr,       \* the exception the method ended with, or NoError
    \* ---- utils.py: deg2mpm ----
    dslope,     \* the argument: a DataArray (name, attrs, values)
    dpc,        \* "start" before the call, "done" or "failed" after it
    dout,       \* the outcome: the status, and the DataArray returned
    \* ---- utils.py: rename_layers ----
    nds,        \* ds as it is when the call is made: kind, layer names, data,
                \* coordinate names
    nobjs,      \* the arrays alive; nobjs[1] is the object passed as ds
    nlayers,    \* the argument valid_layers
    npc,        \* "start" before the call, "done" after it
    nout,       \* the outcome: the status and the index in nobjs of the object
                \* returned (0 when the call raised)
    \* ---- utils.py: fill_depressions ----
    fin,        \* the call: whether pyflwdir can be imported, outlets, the DEM given
    heap,       \* the objects alive: DataArrays, their buffers and attrs dictionaries
    fpc,        \* the position of fill_depressions in its body
    fdem,       \* the local dem: the index of a DataArray of the heap
    fattrs,     \* the local attrs: the index of a dictionary of the heap
    flog,       \* the calls made to pyflwdir.dem.fill_depressions
    ffilled,    \* the local filled: the index of a buffer of the heap
    fout,       \* the DataArray returned (0: none)
    ferr        \* the exception raised, or NoError

cliVars == <<cmd, args, file, pc, df, idx, dirs, writes, calls, rets, echo, err>>
restVars == <<rcall, rpc, rlog, rrets, rerr>>
degVars == <<dslope, dpc, dout>>
renVars == <<nds, nobjs, nlayers, npc, nout>>
fillVars == <<fin, heap, fpc, fdem, fattrs, flog, ffilled, fout, ferr>>

(***************************************************************************)
(* Bounds.                                                                 *)
(***************************************************************************)
\* The largest number of rows of an input file.
MaxRows == 2
\* The largest number of batches of object IDs a lookup answers.
MaxBatches == 2
\* The largest number of cells of a raster.
MaxCells == 2
\* The largest number of entries of valid_layers.
MaxLayers == 2
\* The largest number of variables of a Dataset.
MaxVars == 2

(***************************************************************************)
(* Generic helpers.                                                        *)
(***************************************************************************)
SeqsUpTo(S, n) == UNION {[1..k -> S] : k \in 0..n}

IsInjective(s) == \A i, j \in 1..Len(s) : s[i] = s[j] => i = j

Range(s) == {s[i] : i \in 1..Len(s)}

\* The sub-sequence of s that holds the elements satisfying Keep, in order.
RECURSIVE SelectNotIn(_, _)
SelectNotIn(s, S) ==
    IF s = <<>> THEN <<>>
    ELSE IF Head(s) \in S THEN SelectNotIn(Tail(s), S)
         ELSE <<Head(s)>> \o SelectNotIn(Tail(s), S)

\* The position of column c in the column list cols (c is a column).
ColIndex(cols, c) == CHOOSE j \in 1..Len(cols) : cols[j] = c

(***************************************************************************)
(* Values.  A cell is <<dtype, number>>; a string produced by formatting   *)
(* a number is its sequence of decimal digits.                             *)
(***************************************************************************)
NoError == [type |-> "none"]
NoFrame == [cols |-> <<>>, rows |-> <<>>]

\* DataFrame.astype("f8") on one cell.
AsF8(cell) == <<"float64", cell[2]>>

\* str(n) for a non-negative integer: its decimal digits.
RECURSIVE ToStr(_)
ToStr(n) == IF n < 10 THEN <<n>> ELSE ToStr(n \div 10) \o <<n % 10>>

(***************************************************************************)
(* cli.py: inputs.                                                         *)
(***************************************************************************)
Commands == {"coords", "geometry"}

\* The column names an input file of each command may carry.
ColNames(c) == IF c = "coords" THEN {"x", "y", "z"}
               ELSE {"id", "res", "geometry", "name"}

ColDtype(c) == IF c = "geometry" THEN "geometry"
               ELSE IF c = "name" THEN "object" ELSE "int64"

ColBase(c) == CASE c = "x" -> 10 [] c = "y" -> 20 [] c = "z" -> 30
                [] c = "id" -> 8 [] c = "res" -> 50 [] c = "geometry" -> 60
                [] OTHER -> 70

\* The cell of column c in a row of kind v.
Cell(c, v) == <<ColDtype(c), ColBase(c) + v>>

RowKinds == {1, 2}

\* The tables a file can hold: distinct column names, at most MaxRows rows.
Tables(c) ==
    {[cols |-> cs,
      rows |-> [i \in 1..Len(ks) |-> [j \in 1..Len(cs) |-> Cell(cs[j], ks[i])]]] :
        cs \in {s \in SeqsUpTo(ColNames(c), Cardinality(ColNames(c))) : IsInjective(s)},
        ks \in SeqsUpTo(RowKinds, MaxRows)}

NoCRS == "None"
FileCRSs == {NoCRS, "epsg:4269"}

\* FPATH: the parent directory and the file name split at its dots.
FPaths == {[parent |-> <<>>, name |-> <<"ny_coords", "csv">>],
           [parent |-> <<"data">>, name |-> <<"pts", "v2", "csv">>]}

\* --save_dir, as its path components.
SaveDirs == {<<"topo_3dep">>, <<"out", "topo">>}

QuerySources == {"airmap", "tnm"}
CoordCRSs == {"epsg:4326", "epsg:3857"}

\* py3dep.LAYERS and py3dep.DEF_CRS, imported at cli.py line 11.
LAYERS == {"DEM", "Slope Map"}
DEF_CRS == "DEF_CRS"

\* What the remote services can answer.
ElevVals == {<<"float64", 100>>, <<"float64", 200>>}
MapResults == {"rasterA", "rasterB"}

(***************************************************************************)
(* cli.py: functions.                                                      *)
(***************************************************************************)
\* tdf[req_cols]: the columns req_cols of tdf, in that order.
SelectCols(tdf, req_cols) ==
    [cols |-> req_cols,
     rows |-> [i \in 1..Len(tdf.rows) |->
                 [j \in 1..Len(req_cols) |->
                     tdf.rows[i][ColIndex(tdf.cols, req_cols[j])]]]]

\* get_target_df returning the frame as it is, without selecting req_cols.
GetTargetDfNoSelect(tdf, req_cols) ==
    LET missing == SelectNotIn(req_cols, Range(tdf.cols))
    IN  [missing |-> missing,
         df |-> IF Len(missing) > 0 THEN NoFrame
                ELSE [cols |-> tdf.cols, rows |-> tdf.rows]]

\* get_target_df: the missing columns (then MissingColumns is raised), or
\* the frame restricted to req_cols.
get_target_df(tdf, req_cols) ==
    LET missing == SelectNotIn(req_cols, Range(tdf.cols))
    IN  [missing |-> missing,
         df |-> IF Len(missing) > 0 THEN NoFrame ELSE SelectCols(tdf, req_cols)]

get_item_plural(n) == IF n = 1 THEN "item" ELSE "items"

\* Path(p).stem: the file name without its last suffix.
Stem(fpath) ==
    IF Len(fpath.name) <= 1 THEN fpath.name
    ELSE SubSeq(fpath.name, 1, Len(fpath.name) - 1)

\* Path.mkdir(parents=True, exist_ok=True): the directory and its parents.
Prefixes(p) == {SubSeq(p, 1, k) : k \in 1..Len(p)}

\* The output path built from the whole file name instead of its stem.
CsvPathFullName(save_dir, fpath) ==
    [dir |-> save_dir, name |-> <<fpath.name, "_elevation.csv">>]

\* Path(save_dir, f"{Path(fpath).stem}_elevation.csv")
CsvPath(save_dir, fpath) ==
    [dir |-> save_dir, name |-> <<Stem(fpath), "_elevation.csv">>]

\* Path(save_dir, f"{i}.nc")
NcPath(save_dir, i) == [dir |-> save_dir, name |-> <<ToStr(i[2]), ".nc">>]

\* DataFrame.to_csv of elev.astype("f8"): the index column, then the columns.
ToCsv(frame) ==
    [header |-> <<"">> \o frame.cols,
     rows |-> [i \in 1..Len(frame.rows) |->
                 <<i - 1>> \o [j \in 1..Len(frame.cols) |-> AsF8(frame.rows[i][j])]]]

\* elev["elevation"] = values
WithElevation(frame, values) ==
    [cols |-> Append(frame.cols, "elevation"),
     rows |-> [i \in 1..Len(frame.rows) |-> Append(frame.rows[i], values[i])]]

\* args_list with the geometry and the resolution of a row exchanged.
ArgsListSwapped(frame, save_dir) ==
    [k \in 1..Len(frame.rows) |->
        [g |-> frame.rows[k][2], r |-> frame.rows[k][3],
         p |-> NcPath(save_dir, frame.rows[k][1])]]

\* The generator args_list of geometry: (g, r, path) for each row (i, r, g).
ArgsList(frame, save_dir) ==
    [k \in 1..Len(frame.rows) |->
        [g |-> frame.rows[k][3], r |-> frame.rows[k][2],
         p |-> NcPath(save_dir, frame.rows[k][1])]]

(***************************************************************************)
(* cli.py: the commands.                                                   *)
(***************************************************************************)
CliInit ==
    /\ cmd \in Commands
    /\ args \in {[fpath |-> f, save_dir |-> s, crs |-> c, query_source |-> q, layer |-> l] :
                    f \in FPaths, s \in SaveDirs,
                    c \in IF cmd = "coords" THEN CoordCRSs ELSE {"-"},
                    q \in IF cmd = "coords" THEN QuerySources ELSE {"-"},
                    l \in IF cmd = "geometry" THEN LAYERS ELSE {"-"}}
    /\ \E t \in Tables(cmd), c \in IF cmd = "geometry" THEN FileCRSs ELSE {NoCRS} :
          file = [cols |-> t.cols, rows |-> t.rows, crs |-> c]
    /\ pc = "start"
    /\ df = NoFrame
    /\ idx = 0
    /\ dirs \in {{}, Prefixes(args.save_dir)}
    /\ writes = <<>>
    /\ calls = <<>>
    /\ rets = <<>>
    /\ echo = <<>>
    /\ err = NoError

\* mkdir without parents=True: only the last directory is made.
MkdirNoParents ==
    /\ pc = "start"
    /\ dirs' = dirs \cup {args.save_dir}
    /\ pc' = "read"
    /\ UNCHANGED <<cmd, args, file, df, idx, writes, calls, rets, echo, err>>

\* Path(save_dir).mkdir(parents=True, exist_ok=True), the first statement of
\* both commands.
Mkdir ==
    /\ pc = "start"
    /\ dirs' = dirs \cup Prefixes(args.save_dir)
    /\ pc' = "read"
    /\ UNCHANGED <<cmd, args, file, df, idx, writes, calls, rets, echo, err>>

\* coords: elev = get_target_df(pd.read_csv(fpath), ["x", "y"]) and the echo.
\* A file with no columns (an empty CSV, or blank lines only) makes
\* pd.read_csv raise EmptyDataError, and get_target_df is not called.
CoordsRead ==
    /\ cmd = "coords" /\ pc = "read"
    /\ LET r == get_target_df(file, <<"x", "y">>)
       IN  IF file.cols = <<>>
           THEN /\ err' = [type |-> "EmptyDataError"]
                /\ pc' = "failed"
                /\ UNCHANGED <<df, echo>>
           ELSE IF Len(r.missing) > 0
           THEN /\ err' = [type |-> "MissingColumns", missing |-> r.missing]
                /\ pc' = "failed"
                /\ UNCHANGED <<df, echo>>
           ELSE /\ df' = r.df
                /\ echo' = Append(echo, <<"Found", Len(r.df.rows),
                                          get_item_plural(Len(r.df.rows))>>)
                /\ pc' = "query"
                /\ UNCHANGED err
    /\ UNCHANGED <<cmd, args, file, idx, dirs, writes, calls, rets>>

\* coords: py3dep.elevation_bycoords(coords_list, crs, query_source), which
\* answers one elevation per coordinate or raises.
CoordsQuery ==
    /\ cmd = "coords" /\ pc = "query"
    /\ calls' = Append(calls, [fn |-> "elevation_bycoords", coords |-> df.rows,
                               crs |-> args.crs, source |-> args.query_source])
    /\ \/ /\ \E v \in [1..Len(df.rows) -> ElevVals] : rets' = Append(rets, v)
          /\ pc' = "write"
          /\ UNCHANGED err
       \/ /\ err' = [type |-> "ServiceError"]
          /\ pc' = "failed"
          /\ UNCHANGED rets
    /\ UNCHANGED <<cmd, args, file, df, idx, dirs, writes, echo>>

\* coords: elev["elevation"] = ...; elev.astype("f8").to_csv(...); echo.
CoordsWrite ==
    /\ cmd = "coords" /\ pc = "write"
    /\ df' = WithElevation(df, rets[Len(rets)])
    /\ writes' = Append(writes, <<CsvPath(args.save_dir, args.fpath), ToCsv(df')>>)
    /\ echo' = Append(echo, <<"Done.">>)
    /\ pc' = "done"
    /\ UNCHANGED <<cmd, args, file, idx, dirs, calls, rets, err>>

\* geometry with the column check made before the CRS check.
GeometryCheckColumnsFirst(f) ==
    LET r == get_target_df(f, <<"id", "res", "geometry">>)
    IN  IF Len(r.missing) > 0
        THEN [type |-> "MissingColumns", missing |-> r.missing, df |-> NoFrame]
        ELSE IF f.crs = NoCRS
             THEN [type |-> "MissingCRS", missing |-> <<>>, df |-> NoFrame]
             ELSE [type |-> "none", missing |-> <<>>, df |-> r.df]

\* geometry: the checks made on the table read from the file: its CRS, then
\* its columns.
GeometryCheck(f) ==
    IF f.crs = NoCRS
    THEN [type |-> "MissingCRS", missing |-> <<>>, df |-> NoFrame]
    ELSE LET r == get_target_df(f, <<"id", "res", "geometry">>)
         IN  IF Len(r.missing) > 0
             THEN [type |-> "MissingColumns", missing |-> r.missing, df |-> NoFrame]
             ELSE [type |-> "none", missing |-> <<>>, df |-> r.df]

\* geometry: read the file, check its CRS, then its columns; echo.
GeometryRead ==
    /\ cmd = "geometry" /\ pc = "read"
    /\ LET c == GeometryCheck(file)
       IN  IF c.type = "MissingCRS"
           THEN /\ err' = [type |-> "MissingCRS"]
                /\ pc' = "failed"
                /\ UNCHANGED <<df, idx, echo>>
           ELSE IF c.type = "MissingColumns"
           THEN /\ err' = [type |-> "MissingColumns", missing |-> c.missing]
                /\ pc' = "failed"
                /\ UNCHANGED <<df, idx, echo>>
           ELSE /\ df' = c.df
                /\ idx' = 1
                /\ echo' = Append(echo, <<"Found", Len(c.df.rows),
                                          get_item_plural(Len(c.df.rows))>>)
                /\ pc' = "loop"
                /\ UNCHANGED err
    /\ UNCHANGED <<cmd, args, file, dirs, writes, calls, rets>>

\* geometry: one turn of the loop: get_map for the next row, which answers a
\* raster or raises, and to_netcdf of the answer.
GeometryGetMap ==
    /\ cmd = "geometry" /\ pc = "loop" /\ idx <= Len(df.rows)
    /\ LET a == ArgsList(df, args.save_dir)[idx]
       IN  /\ calls' = Append(calls, [fn |-> "get_map", layer |-> args.layer,
                                      geometry |-> a.g, resolution |-> a.r,
                                      geo_crs |-> file.crs, crs |-> DEF_CRS])
           /\ \/ /\ \E m \in MapResults :
                      /\ rets' = Append(rets, m)
                      /\ writes' = Append(writes, <<a.p, m>>)
                 /\ idx' = idx + 1
                 /\ UNCHANGED <<pc, err>>
              \/ /\ err' = [type |-> "ServiceError"]
                 /\ pc' = "failed"
                 /\ UNCHANGED <<rets, writes, idx>>
    /\ UNCHANGED <<cmd, args, file, df, dirs, echo>>

\* geometry: the loop is exhausted; echo.
GeometryDone ==
    /\ cmd = "geometry" /\ pc = "loop" /\ idx > Len(df.rows)
    /\ echo' = Append(echo, <<"Done.">>)
    /\ pc' = "done"
    /\ UNCHANGED <<cmd, args, file, df, idx, dirs, writes, calls, rets, err>>

(***************************************************************************)
(* cli.py: the idle state, for the specifications of utils.py.             *)
(***************************************************************************)
CliIdle ==
    /\ cmd = "none" /\ args = <<>> /\ file = <<>> /\ pc = "idle" /\ df = NoFrame
    /\ idx = 0 /\ dirs = {} /\ writes = <<>> /\ calls = <<>> /\ rets = <<>>
    /\ echo = <<>> /\ err = NoError

(***************************************************************************)
(* utils.py: RESTful.bygeom and RESTful.bysql.                             *)
(***************************************************************************)
Geoms == {"polygon", "bbox"}
GeoCRSs == {"epsg:4326", "epsg:3857"}
SqlClauses == {"FID = 1", "AREA > 10"}
ClientCRSs == {"epsg:4326", "epsg:5070"}

\* What an object-ID lookup can answer: batches of object IDs.
OidBatches == {<<1>>, <<2, 3>>}
OidResults == SeqsUpTo(OidBatches, MaxBatches)

\* What get_features can answer for those IDs: one response per batch.
FeatureTags == {"a", "b"}
FeatureResults(oids) == {[k \in 1..Len(oids) |-> [oids |-> oids[k], tag |-> t]] :
                            t \in FeatureTags}

\* pygeoutils.json2geodf(content, crs)
json2geodf(content, crs) == [features |-> content, crs |-> crs]

\* The lookup each method makes: lines 177 and 201.
LookupCall(c) ==
    IF c.method = "bygeom"
    THEN [fn |-> "oids_bygeom", geom |-> c.geom, geo_crs |-> c.geo_crs]
    ELSE [fn |-> "oids_bysql", sql_clause |-> c.sql_clause]

\* get_features handed the first batch of object IDs only.
GetFeaturesCallFirstBatch(oids) ==
    [fn |-> "get_features",
     featureids |-> IF oids = <<>> THEN oids ELSE <<oids[1]>>]

\* self.client.get_features(oids): lines 178 and 202.
GetFeaturesCall(oids) == [fn |-> "get_features", featureids |-> oids]

\* geoutils.json2geodf(..., self.client.client.crs): lines 178 and 202.
Json2geodfCall(content, c) ==
    [fn |-> "json2geodf", content |-> content, crs |-> c.client_crs]

RestInit ==
    /\ rcall \in {[method |-> "bygeom", geom |-> g, geo_crs |-> gc,
                   sql_clause |-> "-", client_crs |-> cc] :
                      g \in Geoms, gc \in GeoCRSs, cc \in ClientCRSs}
              \cup {[method |-> "bysql", geom |-> "-", geo_crs |-> "-",
                     sql_clause |-> q, client_crs |-> cc] :
                      q \in SqlClauses, cc \in ClientCRSs}
    /\ rpc = "start"
    /\ rlog = <<>>
    /\ rrets = <<>>
    /\ rerr = NoError

RestIdle ==
    /\ rcall = <<>> /\ rpc = "idle" /\ rlog = <<>> /\ rrets = <<>> /\ rerr = NoError

\* oids = self.client.oids_bygeom(geom, geo_crs=geo_crs), or oids_bysql: the
\* client answers the object IDs or raises.
RestLookup ==
    /\ rpc = "start"
    /\ rlog' = Append(rlog, LookupCall(rcall))
    /\ \/ /\ \E o \in OidResults : rrets' = Append(rrets, o)
          /\ rpc' = "fetch"
          /\ UNCHANGED rerr
       \/ /\ rerr' = [type |-> "ServiceError"]
          /\ rpc' = "failed"
          /\ UNCHANGED rrets
    /\ UNCHANGED rcall

\* self.client.get_features(oids): the client answers the features or raises.
RestGetFeatures ==
    /\ rpc = "fetch"
    /\ rlog' = Append(rlog, GetFeaturesCall(rrets[1]))
    /\ \/ /\ \E f \in FeatureResults(rlog'[Len(rlog')].featureids) :
                rrets' = Append(rrets, f)
          /\ rpc' = "convert"
          /\ UNCHANGED rerr
       \/ /\ rerr' = [type |-> "ServiceError"]
          /\ rpc' = "failed"
          /\ UNCHANGED rrets
    /\ UNCHANGED rcall

\* return geoutils.json2geodf(features, self.client.client.crs)
RestConvert ==
    /\ rpc = "convert"
    /\ rlog' = Append(rlog, Json2geodfCall(rrets[2], rcall))
    /\ rrets' = Append(rrets, json2geodf(rrets[2], rcall.client_crs))
    /\ rpc' = "done"
    /\ UNCHANGED <<rcall, rerr>>

(***************************************************************************)
(* utils.py: deg2mpm.  A float is [nan, v]: NaN, or the number v.  Degrees *)
(* are whole numbers; a slope in m/m is held in thousandths.               *)
(***************************************************************************)
NaN == [nan |-> TRUE, v |-> 0]
F(n) == [nan |-> FALSE, v |-> n]

\* A tuple and a scalar attribute value.
TupleOf(items) == [kind |-> "tuple", items |-> items, value |-> NaN]
ScalarOf(x) == [kind |-> "scalar", items |-> <<>>, value |-> x]

\* _nodata[0] if isinstance(_nodata, Sequence) else _nodata
FirstOrSelf(nv) == IF nv.kind = "tuple" THEN nv.items[1] ELSE nv.value

\* x != y on floats: NaN differs from everything, itself included.
FloatNe(x, y) == x.nan \/ y.nan \/ x.v # y.v

\* 1000 * tan(d degrees), rounded, for the degrees of CellVals.
TanMilli(d) == CASE d = 0 -> 0
                 [] d = 30 -> 577
                 [] d = 45 -> 1000
                 [] d = 255 -> 3732

\* lambda x: np.tan(np.deg2rad(x))
to_mpm(x) == IF x.nan THEN NaN ELSE F(TanMilli(x.v))

\* hasattr(slope, name): xarray looks the name up in attrs.
HasAttr(da, name) == name \in DOMAIN da.attrs

\* The nodata value deg2mpm uses: lines 73-79.
Nodata(da) ==
    IF HasAttr(da, "_FillValue")
    THEN da.attrs["_FillValue"]
    ELSE IF HasAttr(da, "nodatavals")
         THEN FirstOrSelf(da.attrs["nodatavals"])
         ELSE NaN

\* slope.where(slope != nodata, drop=False)
WhereNe(values, nodata) ==
    [i \in 1..Len(values) |-> IF FloatNe(values[i], nodata) THEN values[i] ELSE NaN]

\* attrs with attrs[name] = value
SetAttr(attrs, name, value) ==
    [k \in DOMAIN attrs \cup {name} |-> IF k = name THEN value ELSE attrs[k]]

\* deg2mpm: lines 72-96 (attributes are kept through where and apply_ufunc).
\* apply_ufunc(vectorize=True) is given no output dtypes, so np.vectorize has
\* no otypes and raises ValueError on an array with no cells (line 90).
deg2mpm(slope) ==
    LET masked == WhereNe(slope.values, Nodata(slope))
        computed == [i \in 1..Len(masked) |-> to_mpm(masked[i])]
        a1 == SetAttr(slope.attrs, "nodatavals", TupleOf(<<NaN>>))
        a2 == IF "_FillValue" \in DOMAIN a1 THEN SetAttr(a1, "_FillValue", NaN) ELSE a1
        a3 == SetAttr(a2, "units", "m/m")
    IN  IF Len(masked) = 0
        THEN [status |-> "ValueError"]
        ELSE [status |-> "ok", name |-> "slope", attrs |-> a3, values |-> computed]

CellVals == {F(0), F(45), F(255), NaN}
SlopeNames == {"slope_degrees", "Slope Map"}

\* The values each attribute of an input can have.
AttrVals(k) ==
    CASE k = "_FillValue" -> {F(255), NaN}
      [] k = "nodatavals" -> {TupleOf(<<F(255)>>), TupleOf(<<F(0), F(255)>>),
                              TupleOf(<<NaN>>), ScalarOf(F(45))}
      [] k = "units" -> {"degrees"}
      [] k = "crs" -> {"epsg:5070"}
AttrNames == {"_FillValue", "nodatavals", "units", "crs"}

\* An attribute that is absent (<<>>) or present with one of its values.
AttrOpts(k) == {<<>>} \cup {<<v>> : v \in AttrVals(k)}

\* The attrs dictionary holding the attributes that are present.
MakeAttrs(fv, nv, un, cr) ==
    LET opt(k) == CASE k = "_FillValue" -> fv [] k = "nodatavals" -> nv
                    [] k = "units" -> un [] k = "crs" -> cr
    IN  [k \in {n \in AttrNames : opt(n) # <<>>} |-> opt(k)[1]]

AttrDicts == {MakeAttrs(fv, nv, un, cr) :
                 fv \in AttrOpts("_FillValue"), nv \in AttrOpts("nodatavals"),
                 un \in AttrOpts("units"), cr \in AttrOpts("crs")}

DegInit ==
    /\ dslope \in {[name |-> n, attrs |-> a, values |-> v] :
                      n \in SlopeNames, a \in AttrDicts, v \in SeqsUpTo(CellVals, MaxCells)}
    /\ dpc = "start"
    /\ dout = <<>>

DegIdle == dslope = <<>> /\ dpc = "idle" /\ dout = <<>>

\* The call deg2mpm(slope): it returns, or ends with the ValueError.
DegCall ==
    /\ dpc = "start"
    /\ dout' = deg2mpm(dslope)
    /\ dpc' = IF dout'.status = "ok" THEN "done" ELSE "failed"
    /\ UNCHANGED dslope

(***************************************************************************)
(* utils.py: rename_layers.  A string is the sequence of its characters.   *)
(***************************************************************************)
UpperChars == <<"A", "B", "C", "D", "E", "F", "G", "H", "I", "J", "K", "L", "M",
                "N", "O", "P", "Q", "R", "S", "T", "U", "V", "W", "X", "Y", "Z">>
LowerChars == <<"a", "b", "c", "d", "e", "f", "g", "h", "i", "j", "k", "l", "m",
                "n", "o", "p", "q", "r", "s", "t", "u", "v", "w", "x", "y", "z">>

\* "3DEPElevation:None" and "elevation": line 114.
ElevationNone == <<"3", "D", "E", "P", "E", "l", "e", "v", "a", "t", "i", "o", "n",
                   ":", "N", "o", "n", "e">>
Elevation == <<"e", "l", "e", "v", "a", "t", "i", "o", "n">>

\* lyr.split(":")[1]: the text between the first and the second colon.
RECURSIVE UpToColon(_)
UpToColon(s) ==
    IF s = <<>> \/ Head(s) = ":" THEN <<>> ELSE <<Head(s)>> \o UpToColon(Tail(s))

RECURSIVE SecondField(_)
SecondField(s) ==
    IF s = <<>> THEN <<>>
    ELSE IF Head(s) = ":" THEN UpToColon(Tail(s)) ELSE SecondField(Tail(s))

\* lyr.split(":")[-1]: the text after the last colon.
RECURSIVE LastField(_)
LastField(s) ==
    IF \A i \in 1..Len(s) : s[i] # ":" THEN s
    ELSE LastField(Tail(s))

\* str.replace(" ", "_")
ReplaceSpaces(s) == [i \in 1..Len(s) |-> IF s[i] = " " THEN "_" ELSE s[i]]

\* str.lower()
LowerChar(c) ==
    IF \E k \in 1..Len(UpperChars) : UpperChars[k] = c
    THEN LowerChars[CHOOSE k \in 1..Len(UpperChars) : UpperChars[k] = c]
    ELSE c
Lower(s) == [i \in 1..Len(s) |-> LowerChar(s[i])]

\* The dictionary rename: lines 113-114.
RenameDict(valid_layers) ==
    LET made == [lyr \in Range(valid_layers) |-> Lower(ReplaceSpaces(LastField(lyr)))]
    IN  [k \in DOMAIN made \cup {ElevationNone} |->
            IF k = ElevationNone THEN Elevation ELSE made[k]]

\* rename_layers on the object objs[1]: lines 113-120.  A name that is no
\* key of the dictionary raises KeyError.  A DataArray is renamed in place
\* (ds.name = ...) and is itself returned; a Dataset is left as it is and
\* Dataset.rename answers a new Dataset, or raises ValueError ("the new name
\* conflicts") when a new name is already taken by another variable's new
\* name or by a coordinate, which keeps its name.
rename_layers(objs, valid_layers) ==
    LET rename == RenameDict(valid_layers)
        ds == objs[1]
    IN  IF \E i \in 1..Len(ds.names) : ds.names[i] \notin DOMAIN rename
        THEN [status |-> "KeyError", objs |-> objs, ref |-> 0]
        ELSE LET new == [i \in 1..Len(ds.names) |-> rename[ds.names[i]]]
             IN  IF ds.kind = "DataArray"
                 THEN [status |-> "ok", objs |-> [objs EXCEPT ![1].names = new],
                       ref |-> 1]
                 ELSE IF ~IsInjective(ds.coords \o new)
                      THEN [status |-> "ValueError", objs |-> objs, ref |-> 0]
                      ELSE [status |-> "ok",
                            objs |-> Append(objs, [ds EXCEPT !.names = new]),
                            ref |-> Len(objs) + 1]

\* The layer names of the inputs.
LayerNames == {ElevationNone,
               <<"E", ":", "S", " ", "M">>,
               <<"S", " ", "M">>,
               <<"a", ":", "b", ":", "C", " ", "d">>,
               <<"E", ":", "X">>,
               <<"d", "e", "m">>}

\* The coordinate names an array carries: none, or x and y.
CoordNames == {<<>>, <<<<"x">>, <<"y">>>>}

\* A DataArray has one name; a Dataset has distinct variable names.
Arrays ==
    {[kind |-> "DataArray", names |-> <<n>>, data |-> <<"raster1">>, coords |-> cs] :
        n \in LayerNames, cs \in CoordNames}
    \cup {[kind |-> "Dataset", names |-> ns,
           data |-> [i \in 1..Len(ns) |-> <<"raster", i>>], coords |-> cs] :
             ns \in {s \in SeqsUpTo(LayerNames, MaxVars) : IsInjective(s)},
             cs \in CoordNames}

RenameInit ==
    /\ nds \in Arrays
    /\ nobjs = <<nds>>
    /\ nlayers \in SeqsUpTo(LayerNames, MaxLayers)
    /\ npc = "start"
    /\ nout = [status |-> "none", ref |-> 0]

RenameIdle ==
    /\ nds = <<>> /\ nobjs = <<>> /\ nlayers = <<>> /\ npc = "idle"
    /\ nout = [status |-> "none", ref |-> 0]

\* The call rename_layers(ds, valid_layers).
RenameCall ==
    /\ npc = "start"
    /\ LET r == rename_layers(nobjs, nlayers)
       IN  /\ nobjs' = r.objs
           /\ nout' = [status |-> r.status, ref |-> r.ref]
    /\ npc' = "done"
    /\ UNCHANGED <<nds, nlayers>>

(***************************************************************************)
(* utils.py: fill_depressions.  The heap holds the DataArrays (objs), the  *)
(* numpy buffers (bufs) and the attrs dictionaries (dicts); an object      *)
(* refers to its buffer and its dictionary by index, so that sharing one   *)
(* between two arrays is visible.                                          *)
(***************************************************************************)
Outlets == {"min", "edge"}
DemDtypes == {"int32", "float64"}
DemCells == {1, 2}
DemCoords == <<"x", "y", "spatial_ref">>
DemAttrDicts == {MakeAttrs(fv, <<>>, un, <<>>) :
                    fv \in {<<>>, <<F(0)>>}, un \in {<<>>, <<"degrees">>}}

\* A new buffer, dictionary or object at the end of the heap.
AllocBuf(h, b) == [h EXCEPT !.bufs = Append(@, b)]
AllocDict(h, d) == [h EXCEPT !.dicts = Append(@, d)]
AllocObj(h, o) == [h EXCEPT !.objs = Append(@, o)]

\* astype that hands back the array itself, sharing buffer and attrs.
AstypeNoCopy(h, o) == AllocObj(h, h.objs[o])

\* DataArray.astype("f8"): a new array over a converted copy of the data,
\* with a copy of the attrs and the same coordinates.
Astype(h, o) ==
    LET h1 == AllocBuf(h, [dtype |-> "float64", data |-> h.bufs[h.objs[o].buf].data])
        h2 == AllocDict(h1, h.dicts[h.objs[o].attrs])
    IN  AllocObj(h2, [buf |-> Len(h1.bufs), attrs |-> Len(h2.dicts),
                      coords |-> h.objs[o].coords])

\* What the fill routine can answer for data: the cells, none lowered.
RaiseTo(data, m) == [i \in 1..Len(data) |-> IF data[i] < m THEN m ELSE data[i]]
FilledResults(data) == {RaiseTo(data, m) : m \in DemCells}

\* dem.copy(data=filled); dem.attrs = attrs; dem.rio.write_nodata(np.nan):
\* lines 52-54.  copy makes an array over filled with a copy of the attrs,
\* the attrs setter stores dict(attrs), write_nodata answers a copy of the
\* array whose attrs hold _FillValue = nan.
Finish(h, o, filled, attrs) ==
    LET h1 == AllocDict(h, h.dicts[h.objs[o].attrs])
        h2 == AllocObj(h1, [buf |-> filled, attrs |-> Len(h1.dicts),
                            coords |-> h.objs[o].coords])
        h3 == AllocDict(h2, h2.dicts[attrs])
        h4 == [h3 EXCEPT !.objs[Len(h2.objs)].attrs = Len(h3.dicts)]
        h5 == AllocDict(h4, SetAttr(h4.dicts[Len(h3.dicts)], "_FillValue", NaN))
    IN  AllocObj(h5, [buf |-> filled, attrs |-> Len(h5.dicts),
                      coords |-> h.objs[o].coords])

FillInit ==
    /\ fin \in {[available |-> a, outlets |-> o, dem |-> 1, dtype |-> t,
                 data |-> d, attrs |-> at, coords |-> DemCoords] :
                   a \in BOOLEAN, o \in Outlets, t \in DemDtypes,
                   d \in SeqsUpTo(DemCells, MaxCells), at \in DemAttrDicts}
    /\ heap = [objs |-> <<[buf |-> 1, attrs |-> 1, coords |-> fin.coords]>>,
               bufs |-> <<[dtype |-> fin.dtype, data |-> fin.data]>>,
               dicts |-> <<fin.attrs>>]
    /\ fpc = "start"
    /\ fdem = 1
    /\ fattrs = 0
    /\ flog = <<>>
    /\ ffilled = 0
    /\ fout = 0
    /\ ferr = NoError

FillIdle ==
    /\ fin = <<>> /\ heap = <<>> /\ fpc = "idle" /\ fdem = 0 /\ fattrs = 0
    /\ flog = <<>> /\ ffilled = 0 /\ fout = 0 /\ ferr = NoError

\* try: import pyflwdir / except ImportError: raise DependencyError
FillImport ==
    /\ fpc = "start"
    /\ IF fin.available
       THEN fpc' = "astype" /\ UNCHANGED ferr
       ELSE fpc' = "failed" /\ ferr' = [type |-> "DependencyError"]
    /\ UNCHANGED <<fin, heap, fdem, fattrs, flog, ffilled, fout>>

\* dem = dem.astype("f8"); attrs = dem.attrs
FillAstype ==
    /\ fpc = "astype"
    /\ heap' = Astype(heap, fdem)
    /\ fdem' = Len(heap'.objs)
    /\ fattrs' = heap'.objs[fdem'].attrs
    /\ fpc' = "fill"
    /\ UNCHANGED <<fin, flog, ffilled, fout, ferr>>

\* filled, _ = pyflwdir.dem.fill_depressions(dem.values, outlets=outlets,
\* nodata=np.nan): the routine answers a new buffer or raises; whether it
\* also writes into the buffer it was handed is not known here.
FillCall ==
    /\ fpc = "fill"
    /\ LET arg == heap.objs[fdem].buf
       IN  /\ flog' = Append(flog, [elevtn |-> heap.bufs[arg], outlets |-> fin.outlets,
                                    nodata |-> NaN])
           /\ \/ \E r \in FilledResults(heap.bufs[arg].data), inplace \in BOOLEAN :
                    LET h1 == IF inplace THEN [heap EXCEPT !.bufs[arg].data = r] ELSE heap
                    IN  /\ heap' = AllocBuf(h1, [dtype |-> "float64", data |-> r])
                        /\ ffilled' = Len(heap'.bufs)
                        /\ fpc' = "finish"
                        /\ UNCHANGED ferr
              \/ /\ ferr' = [type |-> "PyflwdirError"]
                 /\ fpc' = "failed"
                 /\ UNCHANGED <<heap, ffilled>>
    /\ UNCHANGED <<fin, fdem, fattrs, fout>>

\* dem = dem.copy(data=filled); dem.attrs = attrs;
\* dem = dem.rio.write_nodata(np.nan); return dem
FillFinish ==
    /\ fpc = "finish"
    /\ heap' = Finish(heap, fdem, ffilled, fattrs)
    /\ fdem' = Len(heap'.objs)
    /\ fout' = Len(heap'.objs)
    /\ fpc' = "done"
    /\ UNCHANGED <<fin, fattrs, flog, ffilled, ferr>>

(***************************************************************************)
(* cli.py: properties.                                                     *)
(***************************************************************************)
\* The cell of column c in row i of the input file.
FileCell(i, c) == file.rows[i][ColIndex(file.cols, c)]

HasCols(S) == S \subseteq Range(file.cols)

ReqCols == IF cmd = "coords" THEN <<"x", "y">> ELSE <<"id", "res", "geometry">>

\* The stem of the two file names of FPaths, written out.
ExpectedStem == IF args.fpath.name = <<"ny_coords", "csv">> THEN <<"ny_coords">>
                ELSE <<"pts", "v2">>

\* The decimal digits of a number below 100, written out.
ExpectedDigits(n) == IF n < 10 THEN <<n>> ELSE <<n \div 10, n % 10>>

\* C1: `coords` on a file with columns x and y makes exactly one call to
\* elevation_bycoords, with the (x, y) pairs of the rows in file order, the CRS
\* and the query source, and then writes exactly one file,
\* <save_dir>/<stem>_elevation.csv, with the columns x, y, elevation and one row
\* per input row whose elevation is the value returned for that row.
C1_CoordsOneCallOneFile ==
    (cmd = "coords" /\ HasCols({"x", "y"})) =>
        /\ err.type # "MissingColumns"
        /\ Len(calls) <= 1
        /\ pc \in {"start", "read", "query"} => calls = <<>>
        /\ pc \in {"write", "done", "failed"} =>
              /\ Len(calls) = 1
              /\ calls[1] = [fn |-> "elevation_bycoords",
                             coords |-> [i \in 1..Len(file.rows) |->
                                            <<FileCell(i, "x"), FileCell(i, "y")>>],
                             crs |-> args.crs, source |-> args.query_source]
        /\ pc # "done" => writes = <<>>
        /\ pc = "done" =>
              /\ Len(writes) = 1
              /\ writes[1][1] = [dir |-> args.save_dir,
                                 name |-> <<ExpectedStem, "_elevation.csv">>]
              /\ Tail(writes[1][2].header) = <<"x", "y", "elevation">>
              /\ Len(writes[1][2].rows) = Len(file.rows)
              /\ \A i \in 1..Len(file.rows) :
                    Tail(writes[1][2].rows[i]) =
                        <<AsF8(FileCell(i, "x")), AsF8(FileCell(i, "y")), rets[1][i]>>

C1_Witness ==
    /\ cmd = "coords" /\ pc = "done"
    /\ file.cols = <<"z", "y", "x">>
    /\ Len(file.rows) = 2 /\ file.rows[1] # file.rows[2]
    /\ rets[1][1] # rets[1][2]
    /\ Len(args.fpath.name) = 3

\* C2: `geometry` on a file with a CRS and the columns id, res, geometry makes
\* one get_map call per row, in row order, with the layer, the row's geometry
\* and resolution, the file's CRS and DEF_CRS, and writes each answer to
\* <save_dir>/<id>.nc; a run that succeeds made as many calls as there are rows.
C2_GeometryOneCallPerRow ==
    (cmd = "geometry" /\ file.crs # NoCRS /\ HasCols({"id", "res", "geometry"})) =>
        /\ err.type \notin {"MissingColumns", "MissingCRS"}
        /\ Len(calls) <= Len(file.rows)
        /\ \A k \in 1..Len(calls) :
              calls[k] = [fn |-> "get_map", layer |-> args.layer,
                          geometry |-> FileCell(k, "geometry"),
                          resolution |-> FileCell(k, "res"),
                          geo_crs |-> file.crs, crs |-> DEF_CRS]
        /\ Len(writes) = Len(rets)
        /\ Len(calls) = Len(rets) + (IF err.type = "ServiceError" THEN 1 ELSE 0)
        /\ \A k \in 1..Len(writes) :
              writes[k] = <<[dir |-> args.save_dir,
                             name |-> <<ExpectedDigits(FileCell(k, "id")[2]), ".nc">>],
                            rets[k]>>
        /\ pc = "done" => Len(calls) = Len(file.rows)

C2_Witness ==
    /\ cmd = "geometry" /\ pc = "done"
    /\ file.cols = <<"geometry", "name", "res", "id">>
    /\ Len(file.rows) = 2 /\ file.rows[1] # file.rows[2]
    /\ Len(calls) = 2 /\ rets[1] # rets[2]

\* get_target_df has been called and has returned a frame that is still in df.
GtdReturned ==
    \/ pc \in {"query", "write", "loop"}
    \/ cmd = "geometry" /\ pc \in {"done", "failed"} /\ err.type \in {"none", "ServiceError"}

\* get_target_df has been called.
GtdCalled == pc \notin {"start", "read"} /\ err.type \notin {"MissingCRS", "EmptyDataError"}

\* C3: get_target_df raises MissingColumns, carrying the entries of req_cols
\* that are not columns of the frame in req_cols order, exactly when one is
\* absent; otherwise it returns the frame with the columns req_cols, in that
\* order, every other column dropped and the rows unchanged.
C3_GetTargetDf ==
    GtdCalled =>
        LET absent == {c \in Range(ReqCols) : c \notin Range(file.cols)}
        IN  /\ (err.type = "MissingColumns") <=> (absent # {})
            /\ err.type = "MissingColumns" =>
                  /\ Range(err.missing) = absent
                  /\ Len(err.missing) = Cardinality(absent)
                  /\ \A i, j \in 1..Len(err.missing) :
                        i < j => ColIndex(ReqCols, err.missing[i]) <
                                 ColIndex(ReqCols, err.missing[j])
            /\ GtdReturned =>
                  /\ df.cols = ReqCols
                  /\ Len(df.rows) = Len(file.rows)
                  /\ \A i \in 1..Len(file.rows) :
                        /\ Len(df.rows[i]) = Len(ReqCols)
                        /\ \A j \in 1..Len(ReqCols) :
                              df.rows[i][j] = FileCell(i, ReqCols[j])

C3_Witness ==
    /\ cmd = "geometry" /\ pc = "loop"
    /\ file.cols = <<"name", "geometry", "id", "res">>
    /\ Len(file.rows) = 2

\* C4: `geometry` on a file without a CRS raises MissingCRS, whether or not
\* required columns are missing too, and makes no get_map call and writes no
\* file.
C4_MissingCrsFirst ==
    (cmd = "geometry" /\ file.crs = NoCRS) =>
        /\ calls = <<>> /\ writes = <<>>
        /\ err.type \in {"none", "MissingCRS"}
        /\ pc \notin {"start", "read"} => (pc = "failed" /\ err.type = "MissingCRS")

C4_Witness ==
    /\ cmd = "geometry" /\ file.crs = NoCRS
    /\ ~HasCols({"id", "res", "geometry"})
    /\ Len(file.rows) = 2
    /\ pc = "failed" /\ err.type = "MissingCRS"

\* C9 as stated: in both commands an input that lacks a required column makes
\* the command fail with MissingColumns, with no remote call and no file
\* written, save_dir being the only thing created.
C9_AsStated ==
    (~HasCols(Range(ReqCols)) /\ pc \notin {"start", "read"}) =>
        /\ pc = "failed" /\ err.type = "MissingColumns"
        /\ calls = <<>> /\ writes = <<>>
        /\ dirs = Prefixes(args.save_dir)

\* C9, amended: an input that lacks a required column makes `coords`, and
\* `geometry` when the file carries a CRS, fail with MissingColumns; `geometry`
\* on a file without a CRS fails with MissingCRS instead, and `coords` on a
\* file with no columns at all fails with EmptyDataError instead.  In every
\* case no remote call is made and no file is written, and save_dir (with its
\* parents) exists from the first step on.
C9_ColumnCheckFirst ==
    ~HasCols(Range(ReqCols)) =>
        /\ calls = <<>> /\ writes = <<>> /\ rets = <<>> /\ echo = <<>>
        /\ pc \in {"start", "read", "failed"}
        /\ pc # "start" => dirs = Prefixes(args.save_dir)
        /\ pc = "failed" =>
              err.type = (IF cmd = "geometry" /\ file.crs = NoCRS
                          THEN "MissingCRS"
                          ELSE IF cmd = "coords" /\ file.cols = <<>>
                          THEN "EmptyDataError" ELSE "MissingColumns")

C9_Witness ==
    /\ cmd = "coords" /\ pc = "failed" /\ err.type = "MissingColumns"
    /\ file.cols = <<"z", "x">> /\ Len(file.rows) = 2
    /\ Len(args.save_dir) = 2

(***************************************************************************)
(* utils.py, RESTful: properties.                                          *)
(***************************************************************************)
\* C5: bygeom and bysql make one object-ID lookup with the given arguments,
\* then at most one get_features call, handed exactly the IDs the lookup
\* answered, then one json2geodf of the features with the client's CRS;
\* get_features is not called before the lookup has answered, and a step
\* that raises ends the method: no call is repeated and none follows.
C5_LookupFetchConvert ==
    rpc # "idle" =>
        /\ Len(rlog) <= 3
        /\ Len(rlog) = Len(rrets) + (IF rpc = "failed" THEN 1 ELSE 0)
        /\ (rpc = "failed") <=> (rerr.type # "none")
        /\ rpc = "start" <=> rlog = <<>>
        /\ Len(rlog) >= 1 =>
              rlog[1] = (IF rcall.method = "bygeom"
                         THEN [fn |-> "oids_bygeom", geom |-> rcall.geom,
                               geo_crs |-> rcall.geo_crs]
                         ELSE [fn |-> "oids_bysql", sql_clause |-> rcall.sql_clause])
        /\ Len(rlog) >= 2 =>
              /\ Len(rrets) >= 1
              /\ rlog[2] = [fn |-> "get_features", featureids |-> rrets[1]]
        /\ Len(rlog) >= 3 =>
              /\ Len(rrets) >= 2
              /\ rlog[3] = [fn |-> "json2geodf", content |-> rrets[2],
                            crs |-> rcall.client_crs]
        /\ rpc = "done" => Len(rlog) = 3

C5_Witness ==
    /\ rpc = "done" /\ rcall.method = "bygeom"
    /\ Len(rrets[1]) = 2 /\ rrets[1][1] # rrets[1][2]
    /\ rcall.geo_crs # rcall.client_crs

(***************************************************************************)
(* utils.py, deg2mpm: properties.                                          *)
(***************************************************************************)
\* Whether a cell equals the nodata value (NaN counting as equal to NaN).
IsNodataCell(x, nd) == (x.nan /\ nd.nan) \/ (~x.nan /\ ~nd.nan /\ x.v = nd.v)

\* The nodata value of the input, as the claim words it.
C6_NodataIs(nd) ==
    /\ "_FillValue" \in DOMAIN dslope.attrs => nd = dslope.attrs["_FillValue"]
    /\ ("_FillValue" \notin DOMAIN dslope.attrs /\ "nodatavals" \in DOMAIN dslope.attrs) =>
          LET nv == dslope.attrs["nodatavals"]
          IN  /\ nv.kind = "tuple" => nd = nv.items[1]
              /\ nv.kind = "scalar" => nd = nv.value
    /\ ("_FillValue" \notin DOMAIN dslope.attrs /\ "nodatavals" \notin DOMAIN dslope.attrs) =>
          nd.nan

\* What C6 says of the array returned: it is named slope, has units m/m and
\* nodatavals (nan,), has a _FillValue (NaN) exactly when the input had one,
\* keeps every other attribute, has NaN in every cell that equals the input's
\* nodata value and the tangent of the angle in every other cell (NaN where
\* the angle is NaN).
C6_Returned ==
    /\ dout.name = "slope"
    /\ DOMAIN dout.attrs = DOMAIN dslope.attrs \cup {"units", "nodatavals"}
    /\ dout.attrs["units"] = "m/m"
    /\ dout.attrs["nodatavals"] = TupleOf(<<NaN>>)
    /\ "_FillValue" \in DOMAIN dout.attrs => dout.attrs["_FillValue"] = NaN
    /\ \A k \in DOMAIN dslope.attrs \ {"units", "nodatavals", "_FillValue"} :
          dout.attrs[k] = dslope.attrs[k]
    /\ Len(dout.values) = Len(dslope.values)
    /\ \A nd \in CellVals :
          C6_NodataIs(nd) =>
             \A i \in 1..Len(dslope.values) :
                IF IsNodataCell(dslope.values[i], nd)
                THEN dout.values[i].nan
                ELSE /\ dout.values[i].nan <=> dslope.values[i].nan
                     /\ dslope.values[i].v = 45 => dout.values[i].v = 1000
                     /\ dslope.values[i].v = 0 => dout.values[i].v = 0

\* C6: for every input, whatever its name and attributes, deg2mpm returns
\* an array named slope with units m/m and nodatavals (nan,), with a
\* _FillValue (NaN) only when the input had one, with every other attribute
\* kept and with NaN in every cell that equals the input's nodata value.
C6_Deg2mpm ==
    dpc \in {"done", "failed"} => (dout.status = "ok" /\ C6_Returned)

\* deg2mpm raises ValueError exactly on the arrays with no cells; on every
\* other array it returns what C6 says.
C6_NonEmptyCells ==
    /\ dpc = "failed" <=> (dpc # "idle" /\ dpc # "start" /\ Len(dslope.values) = 0)
    /\ dpc = "failed" => dout.status = "ValueError"
    /\ dpc = "done" => (dout.status = "ok" /\ C6_Returned)

(***************************************************************************)
(* utils.py, rename_layers: properties.                                    *)
(***************************************************************************)
\* r is the text of L after its last colon, with spaces replaced by
\* underscores and lower-cased.
IsShortNameOf(r, L) ==
    \E p \in 0..Len(L) :
        /\ p > 0 => L[p] = ":"
        /\ \A q \in (p + 1)..Len(L) : L[q] # ":"
        /\ Len(r) = Len(L) - p
        /\ \A i \in 1..Len(r) :
              LET c == L[p + i]
              IN  /\ c = " " => r[i] = "_"
                  /\ \A k \in 1..Len(UpperChars) : c = UpperChars[k] => r[i] = LowerChars[k]
                  /\ (c # " " /\ \A k \in 1..Len(UpperChars) : c # UpperChars[k]) => r[i] = c

\* The new name the claim gives to layer L.
IsNewNameOf(r, L) == IF L = ElevationNone THEN r = Elevation ELSE IsShortNameOf(r, L)

\* The new names of the layers of LayerNames, written out.
C7_NewNames == {Elevation, <<"s", "_", "m">>, <<"c", "_", "d">>, <<"x">>,
                <<"d", "e", "m">>}

\* The layers of ds that are neither in valid_layers nor 3DEPElevation:None.
C7_Unknown ==
    {i \in 1..Len(nds.names) : nds.names[i] \notin Range(nlayers) \cup {ElevationNone}}

\* Two variables of ds get the same new name, or a variable gets the name of
\* a coordinate of ds.
C7_Clash ==
    \/ \E i, j \in 1..Len(nds.names) :
          /\ i # j
          /\ \E r \in C7_NewNames :
                IsNewNameOf(r, nds.names[i]) /\ IsNewNameOf(r, nds.names[j])
    \/ \E i \in 1..Len(nds.names), c \in 1..Len(nds.coords) :
          IsNewNameOf(nds.coords[c], nds.names[i])

\* The call returned ds renamed: every layer L has the text after its last
\* colon with spaces as underscores, lower-cased, 3DEPElevation:None has
\* elevation, and nothing else changed.  A DataArray is renamed in place and
\* is itself returned; for a Dataset a new Dataset is returned with as many
\* variables, the one given being left as it was.
C7_Renamed ==
    /\ nout.status = "ok"
    /\ nds.kind = "DataArray" => (nout.ref = 1 /\ Len(nobjs) = 1)
    /\ nds.kind = "Dataset" => (nout.ref = 2 /\ Len(nobjs) = 2 /\ nobjs[1] = nds)
    /\ nobjs[nout.ref].kind = nds.kind
    /\ nobjs[nout.ref].data = nds.data
    /\ nobjs[nout.ref].coords = nds.coords
    /\ Len(nobjs[nout.ref].names) = Len(nds.names)
    /\ \A i \in 1..Len(nds.names) :
          IsNewNameOf(nobjs[nout.ref].names[i], nds.names[i])

\* The call raised the exception e and left ds as it was.
C7_Raised(e) == nout.status = e /\ nout.ref = 0 /\ nobjs = <<nds>>

\* C7 as stated: rename_layers fails with KeyError when a layer of ds is
\* neither in valid_layers nor 3DEPElevation:None; otherwise it renames every
\* layer of ds, every variable of a Dataset and the name of a DataArray.
C7_AsStated ==
    npc = "done" =>
        IF C7_Unknown # {} THEN C7_Raised("KeyError") ELSE C7_Renamed

\* C7: rename_layers fails with KeyError when a layer of ds is neither in
\* valid_layers nor 3DEPElevation:None; otherwise, for a Dataset in which two
\* variables get the same new name or a variable gets the name of a
\* coordinate, it fails with ValueError; a failing call leaves ds as it was.
\* In every other case it renames every layer of ds: every variable of a
\* Dataset, their number unchanged and their new names distinct, and only
\* the name of a DataArray.
C7_RenameLayers ==
    npc = "done" =>
        IF C7_Unknown # {} THEN C7_Raised("KeyError")
        ELSE IF nds.kind = "Dataset" /\ C7_Clash THEN C7_Raised("ValueError")
        ELSE C7_Renamed /\ (nds.kind = "Dataset" => IsInjective(nobjs[2].names))

C7_Witness ==
    /\ npc = "done" /\ nout.status = "ok"
    /\ nds.kind = "Dataset"
    /\ nds.names = <<ElevationNone, <<"a", ":", "b", ":", "C", " ", "d">>>>
    /\ nds.coords = <<<<"x">>, <<"y">>>>
    /\ nlayers = <<<<"a", ":", "b", ":", "C", " ", "d">>>>
    /\ nobjs[nout.ref].names = <<Elevation, <<"c", "_", "d">>>>
    /\ nobjs[1].names = nds.names

(***************************************************************************)
(* utils.py, fill_depressions: properties.                                 *)
(***************************************************************************)
\* The DataArray given to fill_depressions is as it was given.
InputUntouched ==
    /\ heap.objs[1] = [buf |-> 1, attrs |-> 1, coords |-> fin.coords]
    /\ heap.bufs[1] = [dtype |-> fin.dtype, data |-> fin.data]
    /\ heap.dicts[1] = fin.attrs

\* C8: without pyflwdir fill_depressions raises DependencyError before it
\* reads or converts the DEM; with it, the fill routine is called exactly
\* once, with the DEM's values as float64, the given outlets and NaN as
\* nodata, and the array returned is a new one over the routine's answer, with
\* the input's coordinates and its attributes plus _FillValue = NaN; the
\* array given is never modified.
C8_FillDepressions ==
    fpc # "idle" =>
        /\ InputUntouched
        /\ ~fin.available =>
              /\ flog = <<>> /\ fout = 0
              /\ heap.objs = <<[buf |-> 1, attrs |-> 1, coords |-> fin.coords]>>
              /\ Len(heap.bufs) = 1 /\ Len(heap.dicts) = 1
              /\ fpc # "start" => (fpc = "failed" /\ ferr.type = "DependencyError")
        /\ fin.available =>
              /\ ferr.type # "DependencyError"
              /\ Len(flog) <= 1
              /\ fpc \in {"finish", "done"} <=> (Len(flog) = 1 /\ ferr.type = "none")
              /\ Len(flog) = 1 =>
                    flog[1] = [elevtn |-> [dtype |-> "float64", data |-> fin.data],
                               outlets |-> fin.outlets, nodata |-> NaN]
              /\ fpc = "done" <=> fout # 0
              /\ fpc = "done" =>
                    /\ fout # 1
                    /\ heap.objs[fout].buf # 1 /\ heap.objs[fout].attrs # 1
                    /\ heap.objs[fout].coords = fin.coords
                    /\ heap.bufs[heap.objs[fout].buf].dtype = "float64"
                    /\ heap.bufs[heap.objs[fout].buf] = heap.bufs[ffilled]
                    /\ DOMAIN heap.dicts[heap.objs[fout].attrs] =
                          DOMAIN fin.attrs \cup {"_FillValue"}
                    /\ heap.dicts[heap.objs[fout].attrs]["_FillValue"] = NaN
                    /\ \A k \in DOMAIN fin.attrs \ {"_FillValue"} :
                          heap.dicts[heap.objs[fout].attrs][k] = fin.attrs[k]

C8_Witness ==
    /\ fpc = "done" /\ fin.available
    /\ fin.dtype = "int32" /\ fin.data = <<1, 2>>
    /\ DOMAIN fin.attrs = {"_FillValue", "units"}
    /\ heap.bufs[ffilled].data = <<2, 2>>
    /\ heap.bufs[heap.objs[2].buf].data = <<2, 2>>

(***************************************************************************)
(* Specifications.                                                         *)
(***************************************************************************)
vars == <<cliVars, restVars, degVars, renVars, fillVars>>

\* The Cli machine alone: the other variables stay idle.
InitCli == RestIdle /\ DegIdle /\ RenameIdle /\ FillIdle /\ CliInit
NextCli ==
    \/ Mkdir /\ UNCHANGED <<restVars, degVars, renVars, fillVars>>
    \/ CoordsRead /\ UNCHANGED <<restVars, degVars, renVars, fillVars>>
    \/ CoordsQuery /\ UNCHANGED <<restVars, degVars, renVars, fillVars>>
    \/ CoordsWrite /\ UNCHANGED <<restVars, degVars, renVars, fillVars>>
    \/ GeometryRead /\ UNCHANGED <<restVars, degVars, renVars, fillVars>>
    \/ GeometryGetMap /\ UNCHANGED <<restVars, degVars, renVars, fillVars>>
    \/ GeometryDone /\ UNCHANGED <<restVars, degVars, renVars, fillVars>>
SpecCli == InitCli /\ [][NextCli]_vars

\* The Rest machine alone: the other variables stay idle.
InitRest == CliIdle /\ DegIdle /\ RenameIdle /\ FillIdle /\ RestInit
NextRest ==
    \/ RestLookup /\ UNCHANGED <<cliVars, degVars, renVars, fillVars>>
    \/ RestGetFeatures /\ UNCHANGED <<cliVars, degVars, renVars, fillVars>>
    \/ RestConvert /\ UNCHANGED <<cliVars, degVars, renVars, fillVars>>
SpecRest == InitRest /\ [][NextRest]_vars

\* The Deg machine alone: the other variables stay idle.
InitDeg == CliIdle /\ RestIdle /\ RenameIdle /\ FillIdle /\ DegInit
NextDeg ==
    \/ DegCall /\ UNCHANGED <<cliVars, restVars, renVars, fillVars>>
SpecDeg == InitDeg /\ [][NextDeg]_vars

\* The Rename machine alone: the other variables stay idle.
InitRename == CliIdle /\ RestIdle /\ DegIdle /\ FillIdle /\ RenameInit
NextRename ==
    \/ RenameCall /\ UNCHANGED <<cliVars, restVars, degVars, fillVars>>
SpecRename == InitRename /\ [][NextRename]_vars

\* The Fill machine alone: the other variables stay idle.
InitFill == CliIdle /\ RestIdle /\ DegIdle /\ RenameIdle /\ FillInit
NextFill ==
    \/ FillImport /\ UNCHANGED <<cliVars, restVars, degVars, renVars>>
    \/ FillAstype /\ UNCHANGED <<cliVars, restVars, degVars, renVars>>
    \/ FillCall /\ UNCHANGED <<cliVars, restVars, degVars, renVars>>
    \/ FillFinish /\ UNCHANGED <<cliVars, restVars, degVars, renVars>>
SpecFill == InitFill /\ [][NextFill]_vars

====
